---- MODULE Spec2Model ----
(***************************************************************************)
(* AutoShield decision-and-dispatch core.                                  *)
(*                                                                         *)
(*   python-ai/threat_analyzer.py  ThreatAnalyzer (history, scoring,       *)
(*                                 cooldown gates, action dispatch)        *)
(*   python-ai/mcp_client.py       MCPClientManager (connection lifecycle, *)
(*                                 tool discovery, tool calls)             *)
(*   python-ai/main.py             process_security_event (the request     *)
(*                                 handler around analyze_and_respond)     *)
(*                                                                         *)
(* The handlers are asyncio coroutines: a coroutine runs without           *)
(* interruption from one await to the next, so every action below is the   *)
(* code between two awaits of one coroutine.                               *)
(***************************************************************************)
EXTENDS Integers, Sequences, FiniteSets, TLC

VARIABLES
    \* ---- ThreatAnalyzer (threat_analyzer.py:34-46)
    ip_history,        \* dict source -> list of records
    scan_cooldowns,    \* dict source -> time of the last scan
    block_cooldowns,   \* dict source -> time of the last block
    blocked_ips,       \* set of sources
    \* ---- settings (config.py:36-39)
    DRY_RUN_MODE,
    ENABLE_AUTO_BLOCK,
    \* ---- the clock read by datetime.utcnow()
    now,
    \* ---- one entry per request coroutine of process_security_event
    pc,                \* where the coroutine stands
    event,             \* the SecurityEvent it handles
    assessment,        \* the ThreatAssessment of analyze_and_respond
    actions,           \* the ActionResponse list built by _execute_actions
    calls,             \* the tool invocations it sent to the MCP client
    returned,          \* the response returned in the last step, if any
    nEvents,           \* events received so far
    reputation,        \* the last answer of get_ip_reputation, if any
    \* ---- MCPClientManager (mcp_client.py:22-30)
    connected,            \* self._connected
    available_tools,      \* self._available_tools
    session,              \* the state of the object self.session refers to
    connection_attempts,  \* self._connection_attempts
    \* ---- the execution endpoint the client talks to
    endpoint,
    \* ---- one entry per coroutine calling a method of the client
    caller,            \* its method, position and locals
    creturned,         \* the method call that returned in the last step
    failStreak,        \* failed invokes in a row on a healthy endpoint
    nOps,              \* method calls started so far
    nFaults            \* endpoint faults so far

analyzerVars == <<ip_history, scan_cooldowns, block_cooldowns, blocked_ips,
                  DRY_RUN_MODE, ENABLE_AUTO_BLOCK, now,
                  pc, event, assessment, actions, calls, returned, nEvents,
                  reputation>>

clientVars == <<connected, available_tools, session, connection_attempts,
                endpoint, caller, creturned, failStreak, nOps, nFaults>>

vars == <<analyzerVars, clientVars>>

----------------------------------------------------------------------------
(* Bounds of the model *)

MaxEvents == 4

\* the request coroutines in flight at one time, in the order in which a
\* new request takes a free one
Tasks == {1, 2}

(* Program constants *)

THREAT_SCORE_THRESHOLD == 70
FAILED_LOGIN_THRESHOLD == 5
SCAN_COOLDOWN_SECONDS == 300
BLOCK_IP_COOLDOWN_SECONDS == 3600

\* settings.WHITELISTED_IPS = "127.0.0.1,::1" split on ','
whitelisted_ips == {"127.0.0.1", "::1"}

\* source addresses that pass SecurityEvent.validate_ip
Sources == {"127.0.0.1", "203.0.113.5"}

EventType == {"failed_login_attempt", "suspicious_port_scan",
              "confirmed_brute_force", "confirmed_attack",
              "high_cpu_usage", "high_memory_usage",
              "unusual_network_activity", "malware_detected"}

\* instants the clock is sampled at (seconds): inside both cooldowns, past
\* the scan cooldown, past the block cooldown
ClockValues == {0, 301, 3601}

None == "None"

----------------------------------------------------------------------------
(* Helpers for Python values *)

Min(a, b) == IF a < b THEN a ELSE b

\* d.get(k, []) on a dict of lists
DictGet(d, k) == IF k \in DOMAIN d THEN d[k] ELSE <<>>

\* d[k] = v
DictPut(d, k, v) == [x \in (DOMAIN d) \cup {k} |-> IF x = k THEN v ELSE d[x]]

\* `word in name`: the action names are written as their '_'-separated
\* words, and none of the words tested for spans a '_'
Contains(word, name) == \E i \in DOMAIN name : name[i] = word

LOG_ONLY == <<"log", "only">>
BLOCK_IP_AND_SCAN == <<"block", "ip", "and", "scan">>
VULNERABILITY_SCAN == <<"vulnerability", "scan">>
QUICK_SCAN == <<"quick", "scan">>

----------------------------------------------------------------------------
(* ThreatAnalyzer._record_event, _get_recent_events *)

\* _record_event putting the new record in front of the list
RecordEvent_Prepend(hist, ev, t) ==
    DictPut(hist, ev.source_ip,
            <<[event_type |-> ev.event_type, timestamp |-> t]>>
            \o DictGet(hist, ev.source_ip))

RecordEvent(hist, ev, t) ==
    DictPut(hist, ev.source_ip,
            Append(DictGet(hist, ev.source_ip),
                   [event_type |-> ev.event_type, timestamp |-> t]))

InWindow(e, hours, t) == e.timestamp > t - hours * 3600

\* the recent events without the record appended last
GetRecentEvents_ExceptLast(events, hours, t) ==
    SelectSeq(SubSeq(events, 1, Len(events) - 1),
              LAMBDA e : InWindow(e, hours, t))

GetRecentEvents(events, hours, t) ==
    SelectSeq(events, LAMBDA e : InWindow(e, hours, t))

----------------------------------------------------------------------------
(* ThreatAnalyzer._assess_threat *)

base_scores(event_type) ==
    CASE event_type = "failed_login_attempt" -> 10
      [] event_type = "suspicious_port_scan" -> 40
      [] event_type = "confirmed_brute_force" -> 90
      [] event_type = "confirmed_attack" -> 95
      [] event_type = "high_cpu_usage" -> 20
      [] event_type = "high_memory_usage" -> 20
      [] event_type = "unusual_network_activity" -> 50
      [] event_type = "malware_detected" -> 100
      [] OTHER -> 50

\* min(len(recent_events) * 0.2, 2.0), in tenths
MultiplierTenths(n) == Min(n * 2, 20)

\* the score in tenths after `threat_score *= multiplier`
FrequencyTenths(base, n) ==
    IF n > 1 THEN base * MultiplierTenths(n) ELSE base * 10

FailedCount(recent) ==
    Len(SelectSeq(recent, LAMBDA e : e.event_type = "failed_login_attempt"))

PatternBonus(event_type, recent) ==
    IF event_type = "failed_login_attempt"
       /\ FailedCount(recent) >= FAILED_LOGIN_THRESHOLD
    THEN 30 ELSE 0

\* int(threat_score) with no upper limit
CapScore_NoCap(tenths) == tenths \div 10

\* min(int(threat_score), 100)
CapScore(tenths) == Min(tenths \div 10, 100)

\* the tiers with the high tier starting at the action threshold
ThreatLevel_HighFromThreshold(score) ==
    IF score >= 80 THEN "critical"
    ELSE IF score >= THREAT_SCORE_THRESHOLD THEN "high"
    ELSE IF score >= 30 THEN "medium"
    ELSE "low"

ThreatLevel(score) ==
    IF score >= 80 THEN "critical"
    ELSE IF score >= 60 THEN "high"
    ELSE IF score >= 30 THEN "medium"
    ELSE "low"

SelectAction(score, event_type) ==
    IF score >= THREAT_SCORE_THRESHOLD
    THEN IF event_type \in {"confirmed_brute_force", "confirmed_attack"}
         THEN [recommended_action |-> BLOCK_IP_AND_SCAN,
               should_block |-> TRUE, should_scan |-> TRUE]
         ELSE IF event_type = "suspicious_port_scan"
         THEN [recommended_action |-> VULNERABILITY_SCAN,
               should_block |-> FALSE, should_scan |-> TRUE]
         ELSE [recommended_action |-> QUICK_SCAN,
               should_block |-> FALSE, should_scan |-> TRUE]
    ELSE IF score >= 40
    THEN [recommended_action |-> QUICK_SCAN,
          should_block |-> FALSE, should_scan |-> TRUE]
    ELSE [recommended_action |-> LOG_ONLY,
          should_block |-> FALSE, should_scan |-> FALSE]

WhitelistedAssessment ==
    [threat_score |-> 0, threat_level |-> "low",
     recommended_action |-> LOG_ONLY,
     reasoning |-> <<"base_score", "whitelisted">>,
     should_block |-> FALSE, should_scan |-> FALSE]

ScoredAssessment(ev, hist, t) ==
    LET recent == GetRecentEvents(DictGet(hist, ev.source_ip), 24, t)
        n      == Len(recent)
        bonus  == PatternBonus(ev.event_type, recent)
        score  == CapScore(FrequencyTenths(base_scores(ev.event_type), n)
                           + bonus * 10)
        sel    == SelectAction(score, ev.event_type)
    IN  [threat_score |-> score,
         threat_level |-> ThreatLevel(score),
         recommended_action |-> sel.recommended_action,
         reasoning |-> <<"base_score">>
                       \o (IF n > 1 THEN <<"frequency">> ELSE <<>>)
                       \o (IF bonus > 0 THEN <<"failed_logins">> ELSE <<>>),
         should_block |-> sel.should_block,
         should_scan |-> sel.should_scan]

\* _assess_threat without the whitelist check of line 109
AssessThreat_NoWhitelist(ev, hist, t) == ScoredAssessment(ev, hist, t)

AssessThreat(ev, hist, t) ==
    IF ev.source_ip \in whitelisted_ips
    THEN WhitelistedAssessment
    ELSE ScoredAssessment(ev, hist, t)

----------------------------------------------------------------------------
(* ThreatAnalyzer._check_scan_cooldown, _check_block_cooldown *)

\* the scan gate opening at the end of the cooldown, the last instant
\* included
CheckScanCooldown_Inclusive(cd, ip, t) ==
    IF ip \notin DOMAIN cd THEN TRUE
    ELSE t >= cd[ip] + SCAN_COOLDOWN_SECONDS

CheckScanCooldown(cd, ip, t) ==
    IF ip \notin DOMAIN cd THEN TRUE
    ELSE t > cd[ip] + SCAN_COOLDOWN_SECONDS

CheckBlockCooldown(cd, ip, t) ==
    IF ip \notin DOMAIN cd THEN TRUE
    ELSE t > cd[ip] + BLOCK_IP_COOLDOWN_SECONDS

----------------------------------------------------------------------------
(* ThreatAnalyzer._execute_actions                                         *)
(*                                                                         *)
(* A dispatch state d holds what one run of _execute_actions reads and     *)
(* writes: the analyzer's dicts and the coroutine's actions list, the      *)
(* calls it made on the MCP client and its position (pc).  The three       *)
(* action blocks run in the order of the code; a block that awaits the     *)
(* MCP client stops there (pc = "await_...") and is resumed by the         *)
(* Resume operators when the call returns or raises.                       *)

Success(action, result) ==
    [success |-> TRUE, action_taken |-> action, tool_used |-> action,
     result |-> result, error |-> None]

Failure(action, err) ==
    [success |-> FALSE, action_taken |-> action, tool_used |-> None,
     result |-> None, error |-> err]

COOLDOWN_ACTIVE == "Cooldown period active"

\* payloads call_tool returns, errors it raises (mcp_client.py:150-188)
Payloads == {"text_result"}
ClientErrors ==
    {"Failed to connect to MCP server", "timed out",
     "not available on MCP server"}

DryRunResult(action) == <<"dry_run", action>>

\* a completed block that leaves the block cooldown as it was
BlockSucceeded_NoMark(d, ip, result, t) ==
    [d EXCEPT !.actions = Append(@, Success("block_ip_firewall", result)),
              !.blocked_ips = @ \cup {ip},
              !.pc = "done"]

\* lines 258-266: the block call returned (or dry run)
BlockSucceeded(d, ip, result, t) ==
    [d EXCEPT !.actions = Append(@, Success("block_ip_firewall", result)),
              !.block_cooldowns = DictPut(@, ip, t),
              !.blocked_ips = @ \cup {ip},
              !.pc = "done"]

\* the error of the block call is dropped
BlockFailed_Silent(d, err) == [d EXCEPT !.pc = "done"]

\* lines 267-273
BlockFailed(d, err) ==
    [d EXCEPT !.actions = Append(@, Failure("block_ip_firewall", err)),
              !.pc = "done"]

\* the block stage without the whitelist check of line 248
BlockStage_NoWhitelist(d, ev, a, dry, autoblock, t) ==
    IF a.should_block /\ autoblock
    THEN IF CheckBlockCooldown(d.block_cooldowns, ev.source_ip, t)
         THEN IF dry
              THEN BlockSucceeded(d, ev.source_ip, DryRunResult("block_ip"), t)
              ELSE [d EXCEPT !.pc = "await_block",
                             !.calls = Append(@, "block_ip_firewall")]
         ELSE [d EXCEPT !.pc = "done"]
    ELSE [d EXCEPT !.pc = "done"]

\* lines 246-281
BlockStage(d, ev, a, dry, autoblock, t) ==
    IF a.should_block /\ autoblock
    THEN IF ev.source_ip \notin whitelisted_ips
         THEN IF CheckBlockCooldown(d.block_cooldowns, ev.source_ip, t)
              THEN IF dry
                   THEN BlockSucceeded(d, ev.source_ip,
                                       DryRunResult("block_ip"), t)
                   ELSE [d EXCEPT !.pc = "await_block",
                                  !.calls = Append(@, "block_ip_firewall")]
              ELSE [d EXCEPT !.pc = "done"]
         ELSE [d EXCEPT !.pc = "done"]
    ELSE [d EXCEPT !.pc = "done"]

\* lines 230-237
VulnSucceeded(d, ip, result, t) ==
    [d EXCEPT !.actions = Append(@, Success("nmap_vulnerability_scan", result)),
              !.scan_cooldowns = DictPut(@, ip, t)]

\* lines 238-244
VulnFailed(d, err) ==
    [d EXCEPT !.actions = Append(@, Failure("nmap_vulnerability_scan", err))]

\* lines 221-244, then the block stage
VulnStage(d, ev, a, dry, autoblock, t) ==
    IF a.should_scan /\ Contains("vulnerability", a.recommended_action)
    THEN IF CheckScanCooldown(d.scan_cooldowns, ev.source_ip, t)
         THEN IF dry
              THEN BlockStage(VulnSucceeded(d, ev.source_ip,
                                  DryRunResult("vulnerability_scan"), t),
                              ev, a, dry, autoblock, t)
              ELSE [d EXCEPT !.pc = "await_vuln",
                             !.calls = Append(@, "nmap_vulnerability_scan")]
         ELSE BlockStage(d, ev, a, dry, autoblock, t)
    ELSE BlockStage(d, ev, a, dry, autoblock, t)

\* a quick scan marking both cooldowns of its source
QuickSucceeded_MarksBlock(d, ip, result, t) ==
    [d EXCEPT !.actions = Append(@, Success("nmap_quick_scan", result)),
              !.scan_cooldowns = DictPut(@, ip, t),
              !.block_cooldowns = DictPut(@, ip, t)]

\* lines 198-205
QuickSucceeded(d, ip, result, t) ==
    [d EXCEPT !.actions = Append(@, Success("nmap_quick_scan", result)),
              !.scan_cooldowns = DictPut(@, ip, t)]

\* lines 206-212 and 213-219
QuickFailed(d, err) ==
    [d EXCEPT !.actions = Append(@, Failure("nmap_quick_scan", err))]

\* lines 189-219, then the later stages
QuickStage(d, ev, a, dry, autoblock, t) ==
    IF a.should_scan /\ Contains("quick", a.recommended_action)
    THEN IF CheckScanCooldown(d.scan_cooldowns, ev.source_ip, t)
         THEN IF dry
              THEN VulnStage(QuickSucceeded(d, ev.source_ip,
                                 DryRunResult("quick_scan"), t),
                             ev, a, dry, autoblock, t)
              ELSE [d EXCEPT !.pc = "await_quick",
                             !.calls = Append(@, "nmap_quick_scan")]
         ELSE VulnStage(QuickFailed(d, COOLDOWN_ACTIVE),
                        ev, a, dry, autoblock, t)
    ELSE VulnStage(d, ev, a, dry, autoblock, t)

\* _execute_actions from its first line to its first await (or its end)
ExecuteActions(d, ev, a, dry, autoblock, t) ==
    QuickStage(d, ev, a, dry, autoblock, t)

\* the awaited call returned `result`: the rest of the try block, then on
ResumeReturn(d, ev, a, dry, autoblock, t, result) ==
    CASE d.pc = "await_quick" ->
            VulnStage(QuickSucceeded(d, ev.source_ip, result, t),
                      ev, a, dry, autoblock, t)
      [] d.pc = "await_vuln" ->
            BlockStage(VulnSucceeded(d, ev.source_ip, result, t),
                       ev, a, dry, autoblock, t)
      [] d.pc = "await_block" ->
            BlockSucceeded(d, ev.source_ip, result, t)

\* the awaited call raised `err`: the except block, then on
ResumeRaise(d, ev, a, dry, autoblock, t, err) ==
    CASE d.pc = "await_quick" ->
            VulnStage(QuickFailed(d, err), ev, a, dry, autoblock, t)
      [] d.pc = "await_vuln" ->
            BlockStage(VulnFailed(d, err), ev, a, dry, autoblock, t)
      [] d.pc = "await_block" ->
            BlockFailed(d, err)

----------------------------------------------------------------------------
(* MCPClientManager (mcp_client.py)                                        *)
(*                                                                         *)
(* The endpoint is healthy (it answers), hung (it accepts requests and     *)
(* never answers) or down (it refuses connections, and the sessions that   *)
(* were established are broken).  A session object is new (created, not    *)
(* initialized), ready, broken (its connection is lost) or closed.         *)
(*                                                                         *)
(* A client state k holds what one method call reads and writes: the       *)
(* manager's fields and the coroutine's locals.  k.sess says which session *)
(* object the request the coroutine awaits runs on: "self" while that      *)
(* object is still self.session, else the state of the object, which       *)
(* another coroutine's connect attempt has replaced in self.session.       *)

MCP_CONNECTION_RETRIES == 3
MCP_RETRY_DELAY == 5

\* bounds of the client model
MaxOps == 3
MaxFaults == 1

\* the coroutines calling the client at one time, in the order in which a
\* new call takes a free one
Callers == {1, 2}

\* the tools the Kali server lists
ServerTools ==
    {"nmap_quick_scan", "nmap_vulnerability_scan", "block_ip_firewall",
     "unblock_ip_firewall", "get_failed_logins", "get_system_health",
     "restart_service"}

\* the tool_name arguments of call_tool: a tool the server lists and a name
\* it does not list
ToolInputs == {"nmap_quick_scan", "block_ip_ufw"}

\* str(e).lower() of the transport errors a request on a lost connection
\* raises, as words: ConnectionResetError(104, 'Connection reset by peer'),
\* BrokenPipeError(32, 'Broken pipe'), anyio.ClosedResourceError() (whose
\* text is empty)
TransportErrors == {<<"connection", "reset", "by", "peer">>,
                    <<"broken", "pipe">>,
                    <<>>}

RECURSIVE Pow2(_)
Pow2(n) == IF n = 0 THEN 1 ELSE 2 * Pow2(n - 1)

IdleCaller ==
    [pc |-> "idle", op |-> None, tool |-> None, max_retries |-> 0,
     attempt |-> 0, sess |-> "self", solo |-> FALSE,
     started_connected |-> FALSE, handshake_ok |-> FALSE,
     discovery_ok |-> FALSE, connects |-> 0, discoveries |-> 0,
     refreshes |-> 0, sent |-> 0,
     slept |-> <<>>, error |-> <<"None">>, result |-> None]

NoCall ==
    [op |-> None, tool |-> None, result |-> None, error |-> <<"None">>,
     solo |-> FALSE, started_connected |-> FALSE, handshake_ok |-> FALSE,
     discovery_ok |-> FALSE, max_retries |-> 0, attempt |-> 0,
     connects |-> 0, discoveries |-> 0, refreshes |-> 0,
     sent |-> 0, slept |-> <<>>, connected |-> FALSE, available_tools |-> {},
     session |-> "none"]

\* the method returns (or raises) `result`
Finish(k, result) == [k EXCEPT !.pc = "done", !.result = result]

\* tool call, lines 159-165: the request is sent and awaited
SendCall(k) ==
    [k EXCEPT !.pc = "calling", !.sent = @ + 1, !.sess = "self"]

\* call_tool lines 152-157, before the refresh
ValidateTool(k) ==
    IF k.tool \notin k.available_tools
    THEN [k EXCEPT !.pc = "refresh", !.refreshes = @ + 1,
                   !.discoveries = @ + 1, !.sess = "self"]
    ELSE SendCall(k)

\* the request is sent whatever the refresh found
AfterRefresh_SendAnyway(k) == SendCall(k)

\* call_tool lines 156-157, after the refresh
AfterRefresh(k) ==
    IF k.tool \notin k.available_tools
    THEN Finish(k, "ValueError: not available on MCP server")
    ELSE SendCall(k)

\* connect() returned `ok` to the method that called it
ConnectReturned(k, ok) ==
    IF k.op = "call_tool"
    THEN IF ok THEN ValidateTool(k)
         ELSE Finish(k, "RuntimeError: Failed to connect to MCP server")
    ELSE Finish(k, IF ok THEN "True" ELSE "False")

\* connect lines 52-69: one attempt, up to the awaited handshake
BeginAttempt(k, n) ==
    [k EXCEPT !.attempt = n, !.connection_attempts = n, !.session = "new",
              !.sess = "self", !.displace = TRUE, !.pc = "handshake"]

\* connect lines 44-50
Connect(k, retry) ==
    IF k.connected
    THEN ConnectReturned([k EXCEPT !.connects = @ + 1], TRUE)
    ELSE BeginAttempt([k EXCEPT !.connects = @ + 1,
                                !.max_retries = IF retry
                                                THEN MCP_CONNECTION_RETRIES
                                                ELSE 1], 1)

\* the session object of the awaited request changes state
SetSession(k, state) ==
    IF k.sess = "self" THEN [k EXCEPT !.session = state]
    ELSE [k EXCEPT !.sess = state]

\* the state of the session object the awaited request runs on
AwaitedSession(k) == IF k.sess = "self" THEN k.session ELSE k.sess

\* the handshake succeeded and connect returns without a discovery round
HandshakeOk_NoDiscovery(k) ==
    ConnectReturned([SetSession(k, "ready") EXCEPT !.connected = TRUE,
                                                   !.handshake_ok = TRUE,
                                                   !.sess = "self"], TRUE)

\* connect lines 77-81: the handshake succeeded; _discover_tools awaits
\* list_tools on self.session
HandshakeOk(k) ==
    [SetSession(k, "ready") EXCEPT !.connected = TRUE, !.handshake_ok = TRUE,
                                   !.discoveries = @ + 1,
                                   !.sess = "self", !.pc = "discover"]

\* the handshake raised, with a delay that does not grow
HandshakeFailed_FlatDelay(k) ==
    LET b == [SetSession(k, "broken") EXCEPT !.handshake_ok = FALSE]
    IN  IF b.attempt < b.max_retries
        THEN [b EXCEPT !.pc = "sleep", !.slept = Append(@, MCP_RETRY_DELAY)]
        ELSE ConnectReturned([b EXCEPT !.connected = FALSE], FALSE)

\* connect lines 85-100: the handshake raised
HandshakeFailed(k) ==
    LET b == [SetSession(k, "broken") EXCEPT !.handshake_ok = FALSE]
    IN  IF b.attempt < b.max_retries
        THEN [b EXCEPT !.pc = "sleep",
                       !.slept = Append(@, MCP_RETRY_DELAY
                                           * Pow2(b.attempt - 1))]
        ELSE ConnectReturned([b EXCEPT !.connected = FALSE], FALSE)

\* connect line 96 returned: the next attempt of the loop
BackoffDone(k) == BeginAttempt(k, k.attempt + 1)

\* _discover_tools lines 127-130, then back in its caller
DiscoverOk(k, tools) ==
    LET b == [k EXCEPT !.available_tools = tools, !.discovery_ok = TRUE]
    IN  IF k.pc = "discover" THEN ConnectReturned(b, TRUE)
        ELSE AfterRefresh(b)

\* _discover_tools lines 131-133, then back in its caller
DiscoverFailed(k) ==
    LET b == [k EXCEPT !.available_tools = {}, !.discovery_ok = FALSE]
    IN  IF k.pc = "discover" THEN ConnectReturned(b, TRUE)
        ELSE AfterRefresh(b)

\* call_tool lines 167-174
CallOk(k) == Finish(k, "text_result")

\* the timeout also marks the client disconnected
CallTimeout_Disconnects(k) ==
    Finish([k EXCEPT !.connected = FALSE], "RuntimeError: timed out")

\* call_tool lines 176-179
CallTimeout(k) == Finish(k, "RuntimeError: timed out")

\* call_tool line 185
LooksLikeConnectionError(words) ==
    Contains("connection", words) \/ Contains("stream", words)

\* the failed request is sent once more before the error is raised
CallFailed_Resend(k, words) ==
    IF k.sent < 2 THEN SendCall(k)
    ELSE Finish([k EXCEPT !.error = words], "RuntimeError: Error calling tool")

\* call_tool lines 181-188
CallFailed(k, words) ==
    Finish([k EXCEPT !.error = words,
                     !.connected = IF LooksLikeConnectionError(words)
                                   THEN FALSE ELSE @],
           "RuntimeError: Error calling tool")

\* call_tool connecting without retry
CallTool_NoRetry(k) ==
    IF ~k.connected THEN Connect(k, FALSE) ELSE ValidateTool(k)

\* call_tool lines 146-150
CallTool(k) ==
    IF ~k.connected THEN Connect(k, TRUE) ELSE ValidateTool(k)

\* disconnect() returned to the method that called it (reconnect line 119)
DisconnectReturned(k) ==
    IF k.op = "reconnect" THEN Connect(k, TRUE) ELSE Finish(k, None)

\* disconnect without the early return of lines 104-105
Disconnect_AlwaysCloses(k) ==
    IF k.session # "none"
    THEN [k EXCEPT !.pc = "closing", !.sess = "self"]
    ELSE DisconnectReturned([k EXCEPT !.connected = FALSE,
                                      !.available_tools = {}])

\* disconnect lines 104-109
Disconnect(k) ==
    IF ~k.connected THEN DisconnectReturned(k)
    ELSE IF k.session # "none"
    THEN [k EXCEPT !.pc = "closing", !.sess = "self"]
    ELSE DisconnectReturned([k EXCEPT !.connected = FALSE,
                                      !.available_tools = {}])

\* disconnect lines 110-112: __aexit__ returned
CloseOk(k) ==
    DisconnectReturned([SetSession(k, "closed") EXCEPT
                            !.connected = FALSE, !.available_tools = {}])

\* disconnect lines 113-114: __aexit__ raised
CloseFailed(k) == DisconnectReturned(k)

\* the client state of coroutine c over the manager's fields
ClientState(c) ==
    [connected |-> connected, available_tools |-> available_tools,
     session |-> session, connection_attempts |-> connection_attempts,
     displace |-> FALSE,
     pc |-> caller[c].pc, op |-> caller[c].op, tool |-> caller[c].tool,
     max_retries |-> caller[c].max_retries, attempt |-> caller[c].attempt,
     sess |-> caller[c].sess, solo |-> caller[c].solo,
     started_connected |-> caller[c].started_connected,
     handshake_ok |-> caller[c].handshake_ok,
     discovery_ok |-> caller[c].discovery_ok,
     connects |-> caller[c].connects,
     discoveries |-> caller[c].discoveries,
     refreshes |-> caller[c].refreshes,
     sent |-> caller[c].sent, slept |-> caller[c].slept,
     error |-> caller[c].error, result |-> caller[c].result]

Locals(k) ==
    [pc |-> k.pc, op |-> k.op, tool |-> k.tool,
     max_retries |-> k.max_retries, attempt |-> k.attempt,
     sess |-> k.sess, solo |-> k.solo,
     started_connected |-> k.started_connected,
     handshake_ok |-> k.handshake_ok, discovery_ok |-> k.discovery_ok,
     connects |-> k.connects, discoveries |-> k.discoveries,
     refreshes |-> k.refreshes,
     sent |-> k.sent, slept |-> k.slept,
     error |-> k.error, result |-> k.result]

\* the method call as it returned
Returned(k) ==
    [op |-> k.op, tool |-> k.tool, result |-> k.result, error |-> k.error,
     solo |-> k.solo, started_connected |-> k.started_connected,
     handshake_ok |-> k.handshake_ok, discovery_ok |-> k.discovery_ok,
     max_retries |-> k.max_retries, attempt |-> k.attempt,
     connects |-> k.connects, discoveries |-> k.discoveries,
     refreshes |-> k.refreshes, sent |-> k.sent, slept |-> k.slept,
     connected |-> k.connected, available_tools |-> k.available_tools,
     session |-> k.session]

OnSession(u) == u.pc \in {"handshake", "discover", "refresh", "calling", "closing"}

\* another coroutine's request keeps running on the object that a new
\* connect attempt has just replaced in self.session
Displaced(u) ==
    IF OnSession(u) /\ u.sess = "self" THEN [u EXCEPT !.sess = session] ELSE u

\* MCPClientManager.__init__, in front of an endpoint in state e
ClientInit(e) ==
    /\ connected = FALSE
    /\ available_tools = {}
    /\ session = "none"
    /\ connection_attempts = 0
    /\ endpoint = e
    /\ caller = [c \in Callers |-> IdleCaller]
    /\ creturned = NoCall
    /\ failStreak = 0
    /\ nOps = 0
    /\ nFaults = 0

----------------------------------------------------------------------------
(* The request coroutines: main.process_security_event around              *)
(* ThreatAnalyzer.analyze_and_respond                                      *)

NoEvent == [event_type |-> None, source_ip |-> None]

NoAssessment ==
    [threat_score |-> 0, threat_level |-> "low", recommended_action |-> <<>>,
     reasoning |-> <<>>, should_block |-> FALSE, should_scan |-> FALSE]

\* nothing returned yet
NoReturn ==
    [event |-> NoEvent, assessment |-> NoAssessment, actions |-> <<>>,
     calls |-> <<>>, success |-> FALSE, threat_score |-> 0]

\* get_ip_reputation has not been called since the last record
NoReputation ==
    [ip |-> None, at |-> 0, total_events |-> 0, recent_events_24h |-> 0,
     is_blocked |-> FALSE, is_whitelisted |-> FALSE, recent |-> <<>>,
     again |-> FALSE]

\* the events the request coroutines receive
EventInputs ==
    {[event_type |-> "confirmed_attack", source_ip |-> "127.0.0.1"],
     [event_type |-> "confirmed_attack", source_ip |-> "203.0.113.5"],
     [event_type |-> "malware_detected", source_ip |-> "203.0.113.5"]}

\* the dispatch state of a coroutine over the analyzer's dicts
DispatchState(position, acts, sent) ==
    [pc |-> position, actions |-> acts, calls |-> sent,
     scan_cooldowns |-> scan_cooldowns,
     block_cooldowns |-> block_cooldowns,
     blocked_ips |-> blocked_ips]

\* main.py:233-246: what process_security_event returns once
\* analyze_and_respond returned: success and threat_score of the
\* SecurityResponse, with the event, the assessment that chose the actions,
\* the actions_taken list and the calls made for it
SecurityResponse(ev, a, d, hist, t) ==
    [event |-> ev, assessment |-> a, actions |-> d.actions, calls |-> d.calls,
     success |-> \E i \in DOMAIN d.actions : d.actions[i].success,
     threat_score |-> AssessThreat(ev, hist, t).threat_score]

\* write a dispatch state back: a coroutine that reached an await keeps its
\* locals, one that finished returns its response and is free again
Store(t, d, ev, a, hist) ==
    /\ scan_cooldowns' = d.scan_cooldowns
    /\ block_cooldowns' = d.block_cooldowns
    /\ blocked_ips' = d.blocked_ips
    /\ IF d.pc = "done"
       THEN /\ pc' = [pc EXCEPT ![t] = "idle"]
            /\ event' = [event EXCEPT ![t] = NoEvent]
            /\ assessment' = [assessment EXCEPT ![t] = NoAssessment]
            /\ actions' = [actions EXCEPT ![t] = <<>>]
            /\ calls' = [calls EXCEPT ![t] = <<>>]
            /\ returned' = SecurityResponse(ev, a, d, hist, now)
       ELSE /\ pc' = [pc EXCEPT ![t] = d.pc]
            /\ event' = [event EXCEPT ![t] = ev]
            /\ assessment' = [assessment EXCEPT ![t] = a]
            /\ actions' = [actions EXCEPT ![t] = d.actions]
            /\ calls' = [calls EXCEPT ![t] = d.calls]
            /\ returned' = NoReturn

\* ThreatAnalyzer.__init__ under the settings (dry, autoblock)
AnalyzerInit(dry, autoblock) ==
    /\ ip_history = <<>>
    /\ scan_cooldowns = <<>>
    /\ block_cooldowns = <<>>
    /\ blocked_ips = {}
    /\ DRY_RUN_MODE = dry
    /\ ENABLE_AUTO_BLOCK = autoblock
    /\ now = 0
    /\ pc = [t \in Tasks |-> "idle"]
    /\ event = [t \in Tasks |-> NoEvent]
    /\ assessment = [t \in Tasks |-> NoAssessment]
    /\ actions = [t \in Tasks |-> <<>>]
    /\ calls = [t \in Tasks |-> <<>>]
    /\ returned = NoReturn
    /\ nEvents = 0
    /\ reputation = NoReputation

Init ==
    /\ \E dry \in BOOLEAN, autoblock \in BOOLEAN : AnalyzerInit(dry, autoblock)
    /\ ClientInit("healthy")

\* analyze_and_respond up to the first await of _execute_actions:
\* _record_event, _assess_threat, then the action blocks
Receive(t, ev) ==
    /\ pc[t] = "idle"
    /\ \A u \in Tasks : u < t => pc[u] # "idle"
    /\ nEvents < MaxEvents
    /\ nEvents' = nEvents + 1
    /\ LET hist == RecordEvent(ip_history, ev, now)
           a    == AssessThreat(ev, hist, now)
           d    == ExecuteActions(DispatchState("start", <<>>, <<>>), ev, a,
                                  DRY_RUN_MODE, ENABLE_AUTO_BLOCK, now)
       IN  /\ ip_history' = hist
           /\ Store(t, d, ev, a, hist)
    /\ UNCHANGED <<DRY_RUN_MODE, ENABLE_AUTO_BLOCK, now, reputation>>
    /\ UNCHANGED clientVars

Awaiting(t) == pc[t] \in {"await_quick", "await_vuln", "await_block"}

\* the awaited MCP client call returns its payload
ToolReturn(t, result) ==
    /\ Awaiting(t)
    /\ Store(t, ResumeReturn(DispatchState(pc[t], actions[t], calls[t]),
                             event[t], assessment[t],
                             DRY_RUN_MODE, ENABLE_AUTO_BLOCK, now, result),
             event[t], assessment[t], ip_history)
    /\ UNCHANGED <<ip_history, DRY_RUN_MODE, ENABLE_AUTO_BLOCK, now, nEvents,
                   reputation>>
    /\ UNCHANGED clientVars

\* the awaited MCP client call raises
ToolRaise(t, err) ==
    /\ Awaiting(t)
    /\ Store(t, ResumeRaise(DispatchState(pc[t], actions[t], calls[t]),
                            event[t], assessment[t],
                            DRY_RUN_MODE, ENABLE_AUTO_BLOCK, now, err),
             event[t], assessment[t], ip_history)
    /\ UNCHANGED <<ip_history, DRY_RUN_MODE, ENABLE_AUTO_BLOCK, now, nEvents,
                   reputation>>
    /\ UNCHANGED clientVars

\* time passes
Tick ==
    /\ \E t \in ClockValues : t > now /\ now' = t
    /\ returned' = NoReturn
    /\ UNCHANGED <<ip_history, scan_cooldowns, block_cooldowns, blocked_ips,
                   DRY_RUN_MODE, ENABLE_AUTO_BLOCK,
                   pc, event, assessment, actions, calls, nEvents,
                   reputation>>
    /\ UNCHANGED clientVars

Next ==
    \/ \E t \in Tasks, ev \in EventInputs : Receive(t, ev)
    \/ \E t \in Tasks, result \in Payloads : ToolReturn(t, result)
    \/ \E t \in Tasks, err \in ClientErrors : ToolRaise(t, err)
    \/ Tick

Spec == Init /\ [][Next]_vars

----------------------------------------------------------------------------
(* The coroutines calling the client: connect (main.py:71, 220),           *)
(* call_tool (through the convenience methods), disconnect (main.py:94)    *)
(* and reconnect                                                           *)

Others(c) == Callers \ {c}

\* an invoke that runs alone against a healthy endpoint
StartsSolo(c) ==
    endpoint = "healthy" /\ \A u \in Others(c) : caller[u].pc = "idle"

\* write a client state back; `starting` when the method call begins.  A
\* method that returned leaves its coroutine free again.
StoreClient(c, k, starting) ==
    /\ connected' = k.connected
    /\ available_tools' = k.available_tools
    /\ session' = k.session
    /\ connection_attempts' = k.connection_attempts
    /\ caller' = [u \in Callers |->
                    IF u = c
                    THEN IF k.pc = "done" THEN IdleCaller ELSE Locals(k)
                    ELSE LET d == IF k.displace THEN Displaced(caller[u])
                                  ELSE caller[u]
                         IN  IF starting THEN [d EXCEPT !.solo = FALSE] ELSE d]
    /\ creturned' = IF k.pc = "done" THEN Returned(k) ELSE NoCall
    /\ failStreak' =
          IF k.pc = "done"
          THEN IF k.op = "call_tool" /\ k.solo /\ k.tool \in ServerTools
                  /\ k.result # "text_result"
               THEN failStreak + 1
               ELSE 0
          ELSE IF starting /\ ~k.solo THEN 0 ELSE failStreak
    /\ UNCHANGED <<endpoint, nFaults>>

\* a free coroutine takes the next method call
Starting(c, op, tool) ==
    [ClientState(c) EXCEPT !.op = op, !.tool = tool,
                           !.started_connected = connected,
                           !.solo = (op = "call_tool" /\ StartsSolo(c))]

CanStart(c) ==
    /\ caller[c].pc = "idle"
    /\ \A u \in Callers : u < c => caller[u].pc # "idle"
    /\ nOps < MaxOps

StartConnect(c, retry) ==
    /\ CanStart(c)
    /\ nOps' = nOps + 1
    /\ StoreClient(c, Connect(Starting(c, "connect", None), retry), TRUE)
    /\ UNCHANGED analyzerVars

StartCallTool(c, tool) ==
    /\ CanStart(c)
    /\ nOps' = nOps + 1
    /\ StoreClient(c, CallTool(Starting(c, "call_tool", tool)), TRUE)
    /\ UNCHANGED analyzerVars

StartDisconnect(c) ==
    /\ CanStart(c)
    /\ nOps' = nOps + 1
    /\ StoreClient(c, Disconnect(Starting(c, "disconnect", None)), TRUE)
    /\ UNCHANGED analyzerVars

StartReconnect(c) ==
    /\ CanStart(c)
    /\ nOps' = nOps + 1
    /\ StoreClient(c, Disconnect(Starting(c, "reconnect", None)), TRUE)
    /\ UNCHANGED analyzerVars

\* session.initialize() returns within the connection timeout
HandshakeSucceeds(c) ==
    /\ caller[c].pc = "handshake"
    /\ endpoint = "healthy"
    /\ StoreClient(c, HandshakeOk(ClientState(c)), FALSE)
    /\ UNCHANGED <<analyzerVars, nOps>>

\* the connection is refused, or wait_for raises TimeoutError
HandshakeFails(c) ==
    /\ caller[c].pc = "handshake"
    /\ endpoint # "healthy"
    /\ StoreClient(c, HandshakeFailed(ClientState(c)), FALSE)
    /\ UNCHANGED <<analyzerVars, nOps>>

\* asyncio.sleep(delay) returns
BackoffElapsed(c) ==
    /\ caller[c].pc = "sleep"
    /\ StoreClient(c, BackoffDone(ClientState(c)), FALSE)
    /\ UNCHANGED <<analyzerVars, nOps>>

\* session.list_tools() answers; it has no timeout, so on a hung endpoint
\* the coroutine stays here
ListToolsReturns(c) ==
    /\ caller[c].pc \in {"discover", "refresh"}
    /\ AwaitedSession(ClientState(c)) = "ready"
    /\ endpoint = "healthy"
    /\ StoreClient(c, DiscoverOk(ClientState(c), ServerTools), FALSE)
    /\ UNCHANGED <<analyzerVars, nOps>>

\* session.list_tools() raises: the session is not usable
ListToolsRaises(c) ==
    /\ caller[c].pc \in {"discover", "refresh"}
    /\ AwaitedSession(ClientState(c)) # "ready"
    /\ StoreClient(c, DiscoverFailed(ClientState(c)), FALSE)
    /\ UNCHANGED <<analyzerVars, nOps>>

\* session.call_tool() answers within the timeout
CallReturns(c) ==
    /\ caller[c].pc = "calling"
    /\ AwaitedSession(ClientState(c)) = "ready"
    /\ endpoint = "healthy"
    /\ StoreClient(c, CallOk(ClientState(c)), FALSE)
    /\ UNCHANGED <<analyzerVars, nOps>>

\* wait_for raises TimeoutError: the endpoint does not answer
CallTimesOut(c) ==
    /\ caller[c].pc = "calling"
    /\ AwaitedSession(ClientState(c)) = "ready"
    /\ endpoint = "hung"
    /\ StoreClient(c, CallTimeout(ClientState(c)), FALSE)
    /\ UNCHANGED <<analyzerVars, nOps>>

\* session.call_tool() raises a transport error: the session is not usable
CallRaises(c, words) ==
    /\ caller[c].pc = "calling"
    /\ AwaitedSession(ClientState(c)) # "ready"
    /\ StoreClient(c, CallFailed(ClientState(c), words), FALSE)
    /\ UNCHANGED <<analyzerVars, nOps>>

\* session.__aexit__() returns
CloseReturns(c) ==
    /\ caller[c].pc = "closing"
    /\ StoreClient(c, CloseOk(ClientState(c)), FALSE)
    /\ UNCHANGED <<analyzerVars, nOps>>

\* session.__aexit__() raises, on a session whose connection is lost
CloseRaises(c) ==
    /\ caller[c].pc = "closing"
    /\ AwaitedSession(ClientState(c)) = "broken"
    /\ StoreClient(c, CloseFailed(ClientState(c)), FALSE)
    /\ UNCHANGED <<analyzerVars, nOps>>

\* the environment: every change of the endpoint ends the solo run of the
\* invokes in flight
Disturbed(u, lost) ==
    [u EXCEPT !.solo = FALSE,
              !.sess = IF lost /\ @ = "ready" THEN "broken" ELSE @]

EndpointChanges(to, lost) ==
    /\ endpoint' = to
    /\ session' = IF lost /\ session = "ready" THEN "broken" ELSE session
    /\ caller' = [u \in Callers |-> Disturbed(caller[u], lost)]
    /\ failStreak' = 0
    /\ creturned' = NoCall
    /\ UNCHANGED <<connected, available_tools, connection_attempts, nOps>>
    /\ UNCHANGED analyzerVars

\* the endpoint goes away: established connections are lost
EndpointFails ==
    /\ endpoint # "down"
    /\ nFaults < MaxFaults
    /\ nFaults' = nFaults + 1
    /\ EndpointChanges("down", TRUE)

\* the endpoint stops answering
EndpointHangs ==
    /\ endpoint = "healthy"
    /\ nFaults < MaxFaults
    /\ nFaults' = nFaults + 1
    /\ EndpointChanges("hung", FALSE)

\* the endpoint is reachable and healthy again
EndpointRecovers ==
    /\ endpoint # "healthy"
    /\ UNCHANGED nFaults
    /\ EndpointChanges("healthy", FALSE)

InitClient ==
    /\ AnalyzerInit(FALSE, TRUE)
    /\ \E e \in {"healthy", "down"} : ClientInit(e)

NextClient ==
    \/ \E c \in Callers, retry \in BOOLEAN : StartConnect(c, retry)
    \/ \E c \in Callers, tool \in ToolInputs : StartCallTool(c, tool)
    \/ \E c \in Callers : StartDisconnect(c)
    \/ \E c \in Callers : StartReconnect(c)
    \/ \E c \in Callers : HandshakeSucceeds(c)
    \/ \E c \in Callers : HandshakeFails(c)
    \/ \E c \in Callers : BackoffElapsed(c)
    \/ \E c \in Callers : ListToolsReturns(c)
    \/ \E c \in Callers : ListToolsRaises(c)
    \/ \E c \in Callers : CallReturns(c)
    \/ \E c \in Callers : CallTimesOut(c)
    \/ \E c \in Callers, words \in TransportErrors : CallRaises(c, words)
    \/ \E c \in Callers : CloseReturns(c)
    \/ \E c \in Callers : CloseRaises(c)
    \/ EndpointFails
    \/ EndpointHangs
    \/ EndpointRecovers

SpecClient == InitClient /\ [][NextClient]_vars

----------------------------------------------------------------------------
(* The dispatcher on its own: _execute_actions over any assessment it can  *)
(* be handed, also one that _assess_threat does not produce                *)

\* the dispatches started
MaxDispatch == 3

\* instants around the end of the scan cooldown of a mark made at 0, and
\* past the block cooldown
GateClock == {0, 100, 300, 301, 3601}

\* the events dispatched for: one whitelisted source, two others
DispatchEvents ==
    {[event_type |-> "confirmed_attack", source_ip |-> ip] :
        ip \in {"127.0.0.1", "203.0.113.5", "198.51.100.7"}}

\* the assessments dispatched: the three selections of _assess_threat that
\* name an action, and a quick scan together with a block
AssessmentInputs ==
    {[threat_score |-> 95, threat_level |-> "critical",
      recommended_action |-> sel[1], reasoning |-> <<"base_score">>,
      should_scan |-> TRUE, should_block |-> sel[2]] :
        sel \in {<<QUICK_SCAN, FALSE>>, <<VULNERABILITY_SCAN, FALSE>>,
                 <<BLOCK_IP_AND_SCAN, TRUE>>, <<QUICK_SCAN, TRUE>>}}

\* _execute_actions(event, assessment) up to its first await (or its end)
Dispatch(t, ev, a) ==
    /\ pc[t] = "idle"
    /\ \A u \in Tasks : u < t => pc[u] # "idle"
    /\ nEvents < MaxDispatch
    /\ nEvents' = nEvents + 1
    /\ Store(t, ExecuteActions(DispatchState("start", <<>>, <<>>), ev, a,
                               DRY_RUN_MODE, ENABLE_AUTO_BLOCK, now),
             ev, a, ip_history)
    /\ UNCHANGED <<ip_history, DRY_RUN_MODE, ENABLE_AUTO_BLOCK, now,
                   reputation>>
    /\ UNCHANGED clientVars

\* time passes, up to and past the end of the cooldowns
GatePasses ==
    /\ \E t \in GateClock : t > now /\ now' = t
    /\ returned' = NoReturn
    /\ UNCHANGED <<ip_history, scan_cooldowns, block_cooldowns, blocked_ips,
                   DRY_RUN_MODE, ENABLE_AUTO_BLOCK,
                   pc, event, assessment, actions, calls, nEvents,
                   reputation>>
    /\ UNCHANGED clientVars

\* one dispatch at a time
NextDispatch ==
    \/ \E ev \in DispatchEvents, a \in AssessmentInputs : Dispatch(1, ev, a)
    \/ \E result \in Payloads : ToolReturn(1, result)
    \/ \E err \in ClientErrors : ToolRaise(1, err)
    \/ GatePasses

SpecDispatch == Init /\ [][NextDispatch]_vars

----------------------------------------------------------------------------
(* The analyzer on its own: _record_event and _assess_threat as            *)
(* analyze_and_respond calls them, and get_ip_reputation, over histories   *)
(* long enough to reach every branch of the scoring                        *)

\* the longest history the analyzer starts from
MaxHistory == 10

\* the events analyzed after that
MaxAssess == 1

\* instants around the far edge of the 24 h window of a record made at 0
DayClock == {0, 86400, 86401}

Repeat(x, n) == [i \in 1..n |-> x]

\* the histories one source has after f failed logins and then s port
\* scans, all recorded at 0
HistoryInputs ==
    {Repeat([event_type |-> "failed_login_attempt", timestamp |-> 0], p[1])
       \o Repeat([event_type |-> "suspicious_port_scan", timestamp |-> 0], p[2]) :
     p \in {q \in (0..MaxHistory) \X (0..MaxHistory) : q[1] + q[2] <= MaxHistory}}

\* the events analyzed: every type from a source off the whitelist, one
\* from a whitelisted source
AssessInputs ==
    {[event_type |-> ty, source_ip |-> "203.0.113.5"] : ty \in EventType}
    \cup {[event_type |-> "confirmed_attack", source_ip |-> "127.0.0.1"]}

\* analyze_and_respond, lines 65-68: the event is recorded, then assessed
Analyze(ev) ==
    /\ nEvents < MaxAssess
    /\ nEvents' = nEvents + 1
    /\ ip_history' = RecordEvent(ip_history, ev, now)
    /\ event' = [event EXCEPT ![1] = ev]
    /\ assessment' = [assessment EXCEPT ![1] = AssessThreat(ev, ip_history', now)]
    /\ reputation' = NoReputation
    /\ UNCHANGED <<scan_cooldowns, block_cooldowns, blocked_ips,
                   DRY_RUN_MODE, ENABLE_AUTO_BLOCK, now,
                   pc, actions, calls, returned>>
    /\ UNCHANGED clientVars

\* the history dict after self.ip_history[source_ip] read it: indexing a
\* defaultdict(list) makes an entry for a key it does not hold
HistoryRead_Index(hist, ev) ==
    IF ev.source_ip \in whitelisted_ips \/ ev.source_ip \in DOMAIN hist
    THEN hist
    ELSE DictPut(hist, ev.source_ip, <<>>)

\* the history dict after _assess_threat read it (line 122):
\* self.ip_history.get(source_ip, []) makes no entry
HistoryRead(hist, ev) == hist

\* _assess_threat(event) called on its own, as main.py:237 calls it
AssessOnly(ev) ==
    /\ event' = [event EXCEPT ![1] = ev]
    /\ assessment' = [assessment EXCEPT ![1] = AssessThreat(ev, ip_history, now)]
    /\ ip_history' = HistoryRead(ip_history, ev)
    /\ UNCHANGED <<scan_cooldowns, block_cooldowns, blocked_ips,
                   DRY_RUN_MODE, ENABLE_AUTO_BLOCK, now,
                   pc, actions, calls, returned, nEvents, reputation>>
    /\ UNCHANGED clientVars

\* ThreatAnalyzer.get_ip_reputation(ip) called at t, with its local `recent`
IpReputation(ip, hist, blocked, t) ==
    LET events == DictGet(hist, ip)
        recent == GetRecentEvents(events, 24, t)
    IN  [ip |-> ip, at |-> t,
         total_events |-> Len(events),
         recent_events_24h |-> Len(recent),
         is_blocked |-> ip \in blocked,
         is_whitelisted |-> ip \in whitelisted_ips,
         recent |-> recent,
         again |-> FALSE]

\* the history dict after self.ip_history[ip] read it: indexing a
\* defaultdict(list) makes an entry for a key it does not hold
ReputationRead_Index(hist, ip) ==
    IF ip \in DOMAIN hist THEN hist ELSE DictPut(hist, ip, <<>>)

\* the history dict after get_ip_reputation read it (line 317):
\* self.ip_history.get(ip, []) makes no entry
ReputationRead(hist, ip) == hist

\* get_ip_reputation that also records its query in the history
GetIpReputation_Records(ip) ==
    /\ reputation' = [IpReputation(ip, ip_history, blocked_ips, now)
                         EXCEPT !.again = (reputation.ip = ip)]
    /\ ip_history' = RecordEvent(ip_history,
                                 [event_type |-> "unusual_network_activity",
                                  source_ip |-> ip], now)
    /\ UNCHANGED <<scan_cooldowns, block_cooldowns, blocked_ips,
                   DRY_RUN_MODE, ENABLE_AUTO_BLOCK, now,
                   pc, event, assessment, actions, calls, returned, nEvents>>
    /\ UNCHANGED clientVars

\* main.get_ip_reputation: the endpoint answers from the analyzer's state;
\* `again` tells a call for the source asked about last, with no record
\* made in between
GetIpReputation(ip) ==
    /\ reputation' = [IpReputation(ip, ip_history, blocked_ips, now)
                         EXCEPT !.again = (reputation.ip = ip)]
    /\ ip_history' = ReputationRead(ip_history, ip)
    /\ UNCHANGED <<scan_cooldowns, block_cooldowns, blocked_ips,
                   DRY_RUN_MODE, ENABLE_AUTO_BLOCK, now,
                   pc, event, assessment, actions, calls, returned, nEvents>>
    /\ UNCHANGED clientVars

\* time passes, up to and past the edge of the window
DayPasses ==
    /\ \E t \in DayClock : t > now /\ now' = t
    /\ UNCHANGED <<ip_history, scan_cooldowns, block_cooldowns, blocked_ips,
                   DRY_RUN_MODE, ENABLE_AUTO_BLOCK,
                   pc, event, assessment, actions, calls, returned, nEvents,
                   reputation>>
    /\ UNCHANGED clientVars

\* the analyzer after some history of one source
InitAssess ==
    /\ \E h \in HistoryInputs :
          ip_history = IF h = <<>> THEN <<>> ELSE DictPut(<<>>, "203.0.113.5", h)
    /\ scan_cooldowns = <<>>
    /\ block_cooldowns = <<>>
    /\ blocked_ips = {}
    /\ DRY_RUN_MODE = FALSE
    /\ ENABLE_AUTO_BLOCK = TRUE
    /\ now = 0
    /\ pc = [t \in Tasks |-> "idle"]
    /\ event = [t \in Tasks |-> NoEvent]
    /\ assessment = [t \in Tasks |-> NoAssessment]
    /\ actions = [t \in Tasks |-> <<>>]
    /\ calls = [t \in Tasks |-> <<>>]
    /\ returned = NoReturn
    /\ nEvents = 0
    /\ reputation = NoReputation
    /\ ClientInit("healthy")

NextAssess ==
    \/ \E ev \in AssessInputs : Analyze(ev)
    \/ \E ip \in Sources : GetIpReputation(ip)
    \/ DayPasses

SpecAssess == InitAssess /\ [][NextAssess]_vars

\* the events assessed again: a failed login and a malware event from a
\* source off the whitelist, an attack from a whitelisted source
ReassessInputs ==
    {[event_type |-> "failed_login_attempt", source_ip |-> "203.0.113.5"],
     [event_type |-> "malware_detected", source_ip |-> "203.0.113.5"],
     [event_type |-> "confirmed_attack", source_ip |-> "127.0.0.1"]}

\* events analyzed, and assessed on their own before and after
NextReassess ==
    \/ \E ev \in ReassessInputs : Analyze(ev)
    \/ \E ev \in ReassessInputs : AssessOnly(ev)
    \/ DayPasses

SpecReassess == InitAssess /\ [][NextReassess]_vars

----------------------------------------------------------------------------
(* Properties of the analyzer and the dispatcher *)

IsScanCall(c) == c \in {"nmap_quick_scan", "nmap_vulnerability_scan"}

HasOutcome(acts, action) ==
    \E i \in DOMAIN acts : acts[i].action_taken = action

\* C1: an event from a whitelisted source is assessed with score exactly 0,
\* tier low and neither scan nor block recommended, whatever was recorded
\* before, and its dispatch sends no block of that source to the MCP client
\* (nor does the source ever enter the blocked set).
C1_WhitelistedScoreZeroNoBlock ==
    /\ returned.event.source_ip \in whitelisted_ips =>
          /\ returned.assessment.threat_score = 0
          /\ returned.threat_score = 0
          /\ returned.assessment.threat_level = "low"
          /\ ~returned.assessment.should_scan
          /\ ~returned.assessment.should_block
          /\ \A i \in DOMAIN returned.calls :
                returned.calls[i] # "block_ip_firewall"
          /\ ~HasOutcome(returned.actions, "block_ip_firewall")
    /\ \A t \in Tasks : event[t].source_ip \in whitelisted_ips =>
          pc[t] # "await_block"
    /\ blocked_ips \cap whitelisted_ips = {}

\* a whitelisted event was answered after earlier events of its own source
\* and after another source was blocked
C1_Witness ==
    /\ returned.event.source_ip \in whitelisted_ips
    /\ returned.event.event_type = "confirmed_attack"
    /\ Len(DictGet(ip_history, returned.event.source_ip)) >= 2
    /\ "203.0.113.5" \in blocked_ips

ScanGatePassed(t) == pc[t] \in {"await_quick", "await_vuln"}
BlockGatePassed(t) == pc[t] = "await_block"

\* C2: the cooldown check and the cooldown mark of one dispatch are atomic
\* with respect to the other dispatches for the same source: never have two
\* dispatches for one source both passed the gate of one action class with
\* neither having marked it yet (each with its invocation in flight).
C2_GateCheckAndMarkAtomic ==
    \A t, u \in Tasks :
        (t # u /\ event[t].source_ip = event[u].source_ip) =>
            /\ ~(ScanGatePassed(t) /\ ScanGatePassed(u))
            /\ ~(BlockGatePassed(t) /\ BlockGatePassed(u))

\* C3: in dry-run mode no dispatch changes the cooldown state, and no action
\* of a dispatch is suppressed: every recorded outcome is a synthetic
\* success.
C3_DryRunLeavesCooldowns ==
    DRY_RUN_MODE =>
        /\ DOMAIN scan_cooldowns = {}
        /\ DOMAIN block_cooldowns = {}
        /\ \A i \in DOMAIN returned.actions :
              /\ returned.actions[i].success
              /\ returned.actions[i].result[1] = "dry_run"

\* C4: a dispatch whose assessment recommends a scan and a block, for the
\* first event ever recorded for its source (both gates open), with
\* auto-block enabled and outside dry-run, records a deep-scan outcome and
\* after it a block outcome.
C4_ScanThenBlock ==
    (/\ returned.assessment.should_scan
     /\ returned.assessment.should_block
     /\ ENABLE_AUTO_BLOCK
     /\ ~DRY_RUN_MODE
     /\ Len(DictGet(ip_history, returned.event.source_ip)) = 1) =>
        \E i, j \in DOMAIN returned.actions :
            /\ i < j
            /\ returned.actions[i].action_taken = "nmap_vulnerability_scan"
            /\ returned.actions[j].action_taken = "block_ip_firewall"

\* the action blocks of _execute_actions a dispatch enters
QuickRecommended(r) ==
    r.assessment.should_scan /\ Contains("quick", r.assessment.recommended_action)
VulnRecommended(r) ==
    r.assessment.should_scan
    /\ Contains("vulnerability", r.assessment.recommended_action)
BlockRecommended(r) ==
    r.assessment.should_block /\ ENABLE_AUTO_BLOCK
    /\ r.event.source_ip \notin whitelisted_ips

\* C5: a recommended action of any class whose cooldown gate is closed is
\* recorded as a failed outcome with the cooldown reason and is not sent to
\* the MCP client.  A recommended action either passes its gate (and gets
\* the outcome of its attempt) or is stopped by it, so every recommended
\* action of a finished dispatch has an outcome, and a cooldown outcome is
\* a failure without a call (stated outside dry-run, where the gates are
\* marked by real invocations only).
C5_ClosedGateRecorded ==
    ~DRY_RUN_MODE =>
    /\ QuickRecommended(returned) => HasOutcome(returned.actions, "nmap_quick_scan")
    /\ VulnRecommended(returned) =>
          HasOutcome(returned.actions, "nmap_vulnerability_scan")
    /\ BlockRecommended(returned) =>
          HasOutcome(returned.actions, "block_ip_firewall")
    /\ \A i \in DOMAIN returned.actions :
          returned.actions[i].error = COOLDOWN_ACTIVE =>
              /\ ~returned.actions[i].success
              /\ \A k \in DOMAIN returned.calls :
                    returned.calls[k] # returned.actions[i].action_taken

\* the score _assess_threat gives an event of type ty from source ip
ScoreOf(ty, ip, hist, t) ==
    AssessThreat([event_type |-> ty, source_ip |-> ip], hist, t).threat_score

RecentCount(ip, hist, t) == Len(GetRecentEvents(DictGet(hist, ip), 24, t))

\* C6: the frequency multiplier never exceeds 2.0 and the score does not
\* fall when the number of recent events of the source grows: for every
\* event type, the score with one more recent event (n + 1) is at least the
\* score with the n >= 1 recent events recorded now.
C6_FrequencyMonotone ==
    \A ip \in DOMAIN ip_history, ty \in EventType :
        LET n == RecentCount(ip, ip_history, now)
            more == RecordEvent(ip_history,
                                [event_type |-> ty, source_ip |-> ip], now)
        IN  /\ MultiplierTenths(n) <= 20
            /\ (ip \notin whitelisted_ips /\ n >= 1) =>
                  ScoreOf(ty, ip, more, now) >= ScoreOf(ty, ip, ip_history, now)

----------------------------------------------------------------------------
(* Properties of the MCP client *)

\* the connect sequence of lines 50-96: attempts, backoff, tool discovery
InConnect(c) == caller[c].pc \in {"handshake", "sleep", "discover"}

\* C7: the connect sequence is mutually exclusive: at no time are two
\* coroutines inside it, whichever of connect, reconnect and call_tool they
\* entered it from.
C7_ConnectMutuallyExclusive ==
    \A c, u \in Callers : (InConnect(c) /\ InConnect(u)) => c = u

\* C8: a connect call that made an attempt returns true only if the
\* handshake and the tool discovery of its last attempt both succeeded; in
\* every other case it returns false and leaves the client disconnected.
C8_ConnectTrueOnlyAfterDiscovery ==
    (creturned.op = "connect" /\ creturned.attempt >= 1) =>
        IF creturned.handshake_ok /\ creturned.discovery_ok
        THEN creturned.result = "True"
        ELSE creturned.result = "False" /\ ~creturned.connected

CALL_ERROR == "RuntimeError: Error calling tool"

\* C9: an invoke whose tool call raised a transport-level error (every
\* error of TransportErrors is one) leaves the client disconnected, and an
\* invoke that starts on a disconnected client runs connect before it sends
\* its request.
C9_TransportErrorDisconnects ==
    creturned.op = "call_tool" =>
        /\ creturned.result = CALL_ERROR => ~creturned.connected
        /\ (~creturned.started_connected /\ creturned.sent > 0) =>
              creturned.connects >= 1

\* C10: the client is never stuck.  failStreak counts the invokes of an
\* offered capability that failed one after the other, each run from start
\* to end alone and against a healthy endpoint, with no other method call
\* and no endpoint change in between.  The first such invoke may fail on a
\* connection lost earlier (and mark the client disconnected); the one after
\* it reconnects and succeeds.
C10_NoStuckState == failStreak <= 1

\* the coroutine awaits the answer to a remote request
AwaitsRemote(c) ==
    caller[c].pc \in {"handshake", "discover", "refresh", "calling"}

\* the awaited request of coroutine c ends: with its answer, with an error,
\* or with the TimeoutError of the wait_for around it
RequestEnds(c) ==
    \/ HandshakeSucceeds(c)
    \/ HandshakeFails(c)
    \/ ListToolsReturns(c)
    \/ ListToolsRaises(c)
    \/ CallReturns(c)
    \/ CallTimesOut(c)
    \/ \E words \in TransportErrors : CallRaises(c, words)

\* C11: every remote request carries a timeout: whatever the endpoint does
\* (it may never answer), a coroutine that awaits a remote request can take
\* its next step, so no method call waits for the endpoint without bound.
C11_EveryRequestTimesOut ==
    \A c \in Callers : AwaitsRemote(c) => ENABLED RequestEnds(c)

\* the delays connect() slept after its first n failed attempts
Backoffs(n) == [i \in 1..n |-> MCP_RETRY_DELAY * Pow2(i - 1)]

\* C12: a connect call on a disconnected client makes at most max_retries
\* attempts (max_retries is 1 without retry), sleeps
\* MCP_RETRY_DELAY * 2^(k-1) after its k-th failed attempt and before
\* attempt k+1 only, stops at the first attempt that succeeds, and returns
\* false leaving the client disconnected exactly when its last allowed
\* attempt failed.
C12_BoundedAttemptsWithBackoff ==
    /\ \A c \in Callers :
          caller[c].pc \in {"handshake", "sleep", "discover"} =>
              /\ caller[c].attempt \in 1..caller[c].max_retries
              /\ caller[c].max_retries \in {1, MCP_CONNECTION_RETRIES}
              /\ caller[c].slept =
                    Backoffs(IF caller[c].pc = "sleep"
                             THEN caller[c].attempt
                             ELSE caller[c].attempt - 1)
              /\ caller[c].pc = "sleep" =>
                    caller[c].attempt < caller[c].max_retries
    /\ (creturned.op = "connect" /\ creturned.attempt >= 1) =>
          /\ creturned.attempt \in 1..creturned.max_retries
          /\ creturned.slept = Backoffs(creturned.attempt - 1)
          /\ creturned.result = "True" => creturned.handshake_ok
          /\ creturned.result = "False" =>
                /\ ~creturned.handshake_ok
                /\ creturned.attempt = creturned.max_retries
                /\ ~creturned.connected

\* connect(retry=True) returned false after three failed attempts and the
\* two delays between them
C12_Witness ==
    /\ creturned.op = "connect"
    /\ creturned.result = "False"
    /\ creturned.attempt = MCP_CONNECTION_RETRIES
    /\ creturned.slept = <<5, 10>>
    /\ ~creturned.connected

CONNECT_FAILED == "RuntimeError: Failed to connect to MCP server"
UNKNOWN_TOOL == "ValueError: not available on MCP server"

\* C13: a connect call (also the one reconnect makes) whose attempt k+1
\* succeeds after k failed attempts returns true and runs tool discovery
\* exactly once, so the tool cache is assigned once in that call: to the
\* server's tools when the listing succeeded.
C13_DiscoveryOncePerConnect ==
    /\ \A c \in Callers :
          caller[c].op \in {"connect", "reconnect"} =>
              /\ caller[c].discoveries <= 1
              /\ caller[c].pc = "discover" => caller[c].discoveries = 1
              /\ caller[c].pc \in {"handshake", "sleep"} =>
                    caller[c].discoveries = 0
    /\ (creturned.op \in {"connect", "reconnect"} /\ creturned.handshake_ok) =>
          /\ creturned.result = "True"
          /\ creturned.discoveries = 1
          /\ creturned.discovery_ok => creturned.available_tools = ServerTools

\* connect returned true on its third attempt, after two failed ones
C13_Witness ==
    /\ creturned.op = "connect"
    /\ creturned.attempt = 3
    /\ creturned.slept = <<5, 10>>
    /\ creturned.result = "True"
    /\ creturned.discoveries = 1
    /\ creturned.available_tools = ServerTools

\* C14: an invoke that finds the client not connected calls connect once,
\* with retry; if connect returns false the invoke raises the connection
\* error without a refresh and without a tool request; if it returns true
\* the invoke goes on to validate its tool.  An invoke that finds the client
\* connected does not call connect.
C14_InvokeConnectsOnce ==
    creturned.op = "call_tool" =>
        IF creturned.started_connected
        THEN creturned.connects = 0 /\ creturned.result # CONNECT_FAILED
        ELSE /\ creturned.connects = 1
             /\ creturned.max_retries = MCP_CONNECTION_RETRIES
             /\ creturned.result = CONNECT_FAILED <=> ~creturned.handshake_ok
             /\ creturned.result = CONNECT_FAILED =>
                   /\ creturned.attempt = MCP_CONNECTION_RETRIES
                   /\ creturned.refreshes = 0
                   /\ creturned.sent = 0
             /\ creturned.handshake_ok =>
                   creturned.refreshes + creturned.sent >= 1

\* an invoke on a disconnected client failed after connect's three attempts
C14_Witness ==
    /\ creturned.op = "call_tool"
    /\ ~creturned.started_connected
    /\ creturned.result = CONNECT_FAILED
    /\ creturned.attempt = MCP_CONNECTION_RETRIES
    /\ creturned.sent = 0

\* C15: an invoke refreshes the tool cache at most once, and only before it
\* sends; when the name is absent after the refresh the invoke raises the
\* unknown-tool error and sends nothing (so a name the server does not list
\* is never sent), and when the name is present after the refresh the
\* request is sent.
C15_RefreshOnceThenFail ==
    /\ \A c \in Callers :
          /\ caller[c].refreshes <= 1
          /\ caller[c].pc = "refresh" =>
                caller[c].refreshes = 1 /\ caller[c].sent = 0
    /\ creturned.op = "call_tool" =>
          /\ creturned.refreshes <= 1
          /\ creturned.result = UNKNOWN_TOOL =>
                /\ creturned.refreshes = 1
                /\ creturned.sent = 0
                /\ creturned.tool \notin creturned.available_tools
          /\ creturned.tool \notin ServerTools => creturned.sent = 0
          /\ (creturned.refreshes = 1 /\ creturned.result # UNKNOWN_TOOL) =>
                creturned.sent = 1
          /\ (creturned.sent = 1 /\ creturned.refreshes = 0) =>
                creturned.tool \in ServerTools

\* an invoke found its tool after a refresh, sent the request and returned
\* its result
C15_Witness ==
    /\ creturned.op = "call_tool"
    /\ creturned.refreshes = 1
    /\ creturned.sent = 1
    /\ creturned.result = "text_result"

TIMED_OUT == "RuntimeError: timed out"

\* the manager's fields
managerFields == <<connected, available_tools, session, connection_attempts>>

\* C16: the step in which a tool call exceeds its timeout raises the timeout
\* error and changes none of the manager's fields (connection flag, tool
\* cache, session), and an invoke that starts right after a timed-out one
\* on the still connected client goes on without calling connect.
C16_TimeoutLeavesConnection ==
    [][\A c \in Callers :
          /\ CallTimesOut(c) =>
                /\ UNCHANGED managerFields
                /\ creturned'.op = "call_tool"
                /\ creturned'.result = TIMED_OUT
                /\ caller'[c] = IdleCaller
          /\ \A tool \in ToolInputs :
                (/\ creturned.result = TIMED_OUT
                 /\ creturned.connected
                 /\ StartCallTool(c, tool)) =>
                    /\ caller'[c].connects = 0
                    /\ caller'[c].pc \in {"refresh", "calling"}
                    /\ connected'
      ]_vars

\* an invoke on a connected client timed out and left it connected with the
\* server's tools cached
C16_Witness ==
    /\ creturned.op = "call_tool"
    /\ creturned.result = TIMED_OUT
    /\ creturned.started_connected
    /\ creturned.connected
    /\ creturned.available_tools = ServerTools
    /\ creturned.session = "ready"

\* C17: one invoke sends at most one tool request and calls connect at most
\* once, before the request; once the request is sent the invoke only awaits
\* it, and when it times out or raises the invoke raises the error to its
\* caller with one request sent and no connect after it.
C17_NoRetryMidCall ==
    /\ \A c \in Callers :
          /\ caller[c].sent <= 1
          /\ caller[c].connects <= 1
          /\ caller[c].sent = 1 <=> caller[c].pc = "calling"
    /\ creturned.op = "call_tool" =>
          /\ creturned.sent <= 1
          /\ creturned.result \in {TIMED_OUT, CALL_ERROR, "text_result"} <=>
                creturned.sent = 1
          /\ creturned.connects = IF creturned.started_connected THEN 0 ELSE 1

\* an invoke whose request raised a connection error returned that error
\* after its one request, marking the client disconnected without
\* reconnecting
C17_Witness ==
    /\ creturned.op = "call_tool"
    /\ creturned.result = CALL_ERROR
    /\ creturned.error = <<"connection", "reset", "by", "peer">>
    /\ creturned.sent = 1
    /\ creturned.connects = 0
    /\ ~creturned.connected

----------------------------------------------------------------------------
(* Properties of the dispatcher: dry run and failures *)

HasDryRunSuccess(acts, action, what) ==
    \E i \in DOMAIN acts :
        /\ acts[i].success
        /\ acts[i].action_taken = action
        /\ acts[i].tool_used = action
        /\ acts[i].result = DryRunResult(what)

\* C19: in dry-run mode no dispatch calls the MCP client (no call is made
\* or awaited), and every action a dispatch recommends is recorded as a
\* success carrying the dry-run payload.
C19_DryRunNeverInvokes ==
    DRY_RUN_MODE =>
        /\ \A t \in Tasks : calls[t] = <<>> /\ ~Awaiting(t)
        /\ returned.calls = <<>>
        /\ QuickRecommended(returned) =>
              HasDryRunSuccess(returned.actions, "nmap_quick_scan", "quick_scan")
        /\ VulnRecommended(returned) =>
              HasDryRunSuccess(returned.actions, "nmap_vulnerability_scan",
                               "vulnerability_scan")
        /\ BlockRecommended(returned) =>
              HasDryRunSuccess(returned.actions, "block_ip_firewall", "block_ip")

\* the outcomes of the actions that passed their gate
Attempted(acts) == SelectSeq(acts, LAMBDA o : o.error # COOLDOWN_ACTIVE)

----------------------------------------------------------------------------
(* Properties of the dispatcher over any assessment *)

\* C21: for any assessment with should_block set for a whitelisted source,
\* the dispatcher does not invoke the block tool (nor report a block), and
\* the block cooldown entry and the blocked set of that source stay as they
\* were: no whitelisted source ever has either.
C21_WhitelistedNeverBlocked ==
    /\ \A t \in Tasks :
          event[t].source_ip \in whitelisted_ips =>
              /\ pc[t] # "await_block"
              /\ \A i \in DOMAIN calls[t] : calls[t][i] # "block_ip_firewall"
    /\ returned.event.source_ip \in whitelisted_ips =>
          /\ \A i \in DOMAIN returned.calls :
                returned.calls[i] # "block_ip_firewall"
          /\ ~HasOutcome(returned.actions, "block_ip_firewall")
    /\ \A ip \in whitelisted_ips :
          /\ ip \notin DOMAIN block_cooldowns
          /\ ip \notin blocked_ips

\* a dispatch for a whitelisted source whose assessment set should_block
\* returned, with auto-block on, another source being blocked already
C21_Witness ==
    /\ returned.event.source_ip \in whitelisted_ips
    /\ returned.assessment.should_block
    /\ returned.assessment.recommended_action = BLOCK_IP_AND_SCAN
    /\ ENABLE_AUTO_BLOCK
    /\ blocked_ips # {}

\* the source of the event that the one dispatch at a time (task 1) handles
\* in a step
StepSource ==
    IF pc[1] = "idle"
    THEN (IF pc'[1] = "idle" THEN returned'.event ELSE event'[1]).source_ip
    ELSE event[1].source_ip

\* the tool invocations task t sends in a step, the outcomes it records
StepCalls(t) ==
    LET after == IF pc'[t] = "idle" THEN returned'.calls ELSE calls'[t]
    IN  SubSeq(after, Len(calls[t]) + 1, Len(after))

StepOutcomes(t) ==
    LET after == IF pc'[t] = "idle" THEN returned'.actions ELSE actions'[t]
    IN  SubSeq(after, Len(actions[t]) + 1, Len(after))

Succeeds(t, tool) ==
    \E i \in DOMAIN StepOutcomes(t) :
        StepOutcomes(t)[i].success /\ StepOutcomes(t)[i].action_taken = tool

\* task t fires the tool in a step: it sends the invocation, or in dry-run
\* mode reports it done
Fires(t, tool) ==
    \/ \E i \in DOMAIN StepCalls(t) : StepCalls(t)[i] = tool
    \/ DRY_RUN_MODE /\ Succeeds(t, tool)

\* the gate of the claim: no entry, or now - last_fired_at > duration
Allowed(cd, ip, duration) ==
    ip \notin DOMAIN cd \/ now - cd[ip] > duration

\* C22: the cooldown gate allows (source, class) exactly when the pair has
\* no entry or now - last_fired_at > cooldown_duration(class): a step fires
\* a scan or a block only through an open gate, and a dispatch whose first
\* recommended action finds its gate open fires it; so after a scan fired
\* at t0 the gate is closed at t0 + 100 s and at t0 + 300 s and open at
\* t0 + 301 s.
C22_CooldownGate ==
    [][/\ LET ip == StepSource
          IN  /\ (Fires(1, "nmap_quick_scan")
                    \/ Fires(1, "nmap_vulnerability_scan")) =>
                      Allowed(scan_cooldowns, ip, SCAN_COOLDOWN_SECONDS)
              /\ Fires(1, "block_ip_firewall") =>
                      Allowed(block_cooldowns, ip, BLOCK_IP_COOLDOWN_SECONDS)
       /\ \A ev \in DispatchEvents, a \in AssessmentInputs :
             Dispatch(1, ev, a) =>
                 /\ (/\ Contains("quick", a.recommended_action)
                     /\ Allowed(scan_cooldowns, ev.source_ip,
                                SCAN_COOLDOWN_SECONDS)) =>
                         Fires(1, "nmap_quick_scan")
                 /\ (/\ Contains("vulnerability", a.recommended_action)
                     /\ Allowed(scan_cooldowns, ev.source_ip,
                                SCAN_COOLDOWN_SECONDS)) =>
                         Fires(1, "nmap_vulnerability_scan")
                 /\ (/\ a.recommended_action = BLOCK_IP_AND_SCAN
                     /\ ENABLE_AUTO_BLOCK
                     /\ ev.source_ip \notin whitelisted_ips
                     /\ Allowed(block_cooldowns, ev.source_ip,
                                BLOCK_IP_COOLDOWN_SECONDS)) =>
                         Fires(1, "block_ip_firewall")]_vars

\* the scan of a source was marked at 0; the third dispatch, at 301, sends
\* the next scan of that source
C22_Witness ==
    /\ now = 301
    /\ "203.0.113.5" \in DOMAIN scan_cooldowns
    /\ scan_cooldowns["203.0.113.5"] = 0
    /\ pc[1] = "await_quick"
    /\ event[1].source_ip = "203.0.113.5"
    /\ nEvents = 3

\* the sources whose entry of a cooldown dict a step sets or changes
Changed(cd, cdAfter) ==
    {ip \in DOMAIN cdAfter : ip \notin DOMAIN cd \/ cdAfter[ip] # cd[ip]}

\* C23: firing an action class for a source changes only the cooldown entry
\* of that (source, class) pair: a step of a dispatch changes no entry of
\* another source, changes the scan entry of its source only with a scan it
\* reports done and the block entry only with a block it reports done, and
\* no entry is ever removed.
C23_CooldownFrame ==
    [][/\ DOMAIN scan_cooldowns \subseteq DOMAIN scan_cooldowns'
       /\ DOMAIN block_cooldowns \subseteq DOMAIN block_cooldowns'
       /\ LET ip == StepSource
          IN  /\ Changed(scan_cooldowns, scan_cooldowns') \subseteq {ip}
              /\ Changed(block_cooldowns, block_cooldowns') \subseteq {ip}
              /\ Changed(scan_cooldowns, scan_cooldowns') # {} =>
                     \/ Succeeds(1, "nmap_quick_scan")
                     \/ Succeeds(1, "nmap_vulnerability_scan")
              /\ Changed(block_cooldowns, block_cooldowns') # {} =>
                     Succeeds(1, "block_ip_firewall")]_vars

\* two sources with entries: one scanned at 0 and blocked later, the other
\* scanned later and never blocked
C23_Witness ==
    /\ DOMAIN scan_cooldowns = {"203.0.113.5", "198.51.100.7"}
    /\ DOMAIN block_cooldowns = {"203.0.113.5"}
    /\ scan_cooldowns["203.0.113.5"] = 0
    /\ block_cooldowns["203.0.113.5"] > 0
    /\ scan_cooldowns["198.51.100.7"] > 0

----------------------------------------------------------------------------
(* Properties of the history store *)

\* C24: the recent events of a source are exactly its records whose
\* recorded time lies in the closed interval [now - window, now], both ends
\* included, in insertion order.
C24_RecentEventsClosedWindow ==
    reputation.ip # None =>
        reputation.recent =
            SelectSeq(DictGet(ip_history, reputation.ip),
                      LAMBDA e : /\ e.timestamp >= reputation.at - 24 * 3600
                                 /\ e.timestamp <= reputation.at)

\* C25 as stated: two calls of recentEvents for one source with no record
\* made in between return identical sequences.
C25_RecentEventsIdempotent ==
    [][\A ip \in Sources :
          (GetIpReputation(ip) /\ reputation.ip = ip) =>
              reputation'.recent = reputation.recent]_vars

\* C25: two calls of recentEvents for one source with no record made in
\* between and at the same reading of the clock return identical sequences,
\* and leave the history as it was.
C25_RecentEventsIdempotentAtOneInstant ==
    [][\A ip \in Sources :
          (GetIpReputation(ip) /\ reputation.ip = ip /\ reputation.at = now) =>
              /\ reputation'.recent = reputation.recent
              /\ ip_history' = ip_history]_vars

\* a second call at the same instant answered with a non-empty sequence that
\* leaves out an older record
C25_Witness ==
    /\ reputation.again
    /\ reputation.at = now
    /\ reputation.recent # <<>>
    /\ Len(reputation.recent) < reputation.total_events

IsPrefix(a, b) == Len(a) <= Len(b) /\ SubSeq(b, 1, Len(a)) = a

\* C26: every source's history is append-only and monotonic in time: in
\* every step the earlier history of each source is a prefix of the later
\* one, each processed event adds exactly one record to the history of its
\* own source and none to any other, no other step changes a history, and
\* the recorded times never decrease along a list (the clock read by
\* utcnow() not running backwards).
C26_HistoryAppendOnly ==
    [][/\ \A ip \in DOMAIN ip_history :
             /\ ip \in DOMAIN ip_history'
             /\ IsPrefix(ip_history[ip], ip_history'[ip])
       /\ \A t \in Tasks, ev \in EventInputs :
             Receive(t, ev) =>
                 /\ Len(ip_history'[ev.source_ip])
                        = Len(DictGet(ip_history, ev.source_ip)) + 1
                 /\ \A ip \in DOMAIN ip_history' \ {ev.source_ip} :
                        /\ ip \in DOMAIN ip_history
                        /\ ip_history'[ip] = ip_history[ip]
       /\ (~ \E t \in Tasks, ev \in EventInputs : Receive(t, ev)) =>
             ip_history' = ip_history
       /\ \A ip \in DOMAIN ip_history' :
             \A i, j \in DOMAIN ip_history'[ip] :
                 i < j => ip_history'[ip][i].timestamp
                              <= ip_history'[ip][j].timestamp]_vars

\* one source has three records made at two instants, another source has a
\* record too
C26_Witness ==
    /\ "127.0.0.1" \in DOMAIN ip_history
    /\ "203.0.113.5" \in DOMAIN ip_history
    /\ Len(ip_history["203.0.113.5"]) = 3
    /\ ip_history["203.0.113.5"][1].timestamp
           < ip_history["203.0.113.5"][3].timestamp

----------------------------------------------------------------------------
(* Properties of the assessment *)

\* C27: for a failed_login_attempt event from a source off the whitelist,
\* when the failed_login_attempt records of the source in the 24 h window
\* [now - 24 h, now], the current event included, number at least
\* FAILED_LOGIN_THRESHOLD, the bonus of 30 is added to the score after the
\* frequency multiplier, and below the threshold no bonus is added; the 6th
\* of six failed logins scores int(10 * 1.2) + 30 = 42.
C27_FailedLoginBonus ==
    [][\A ev \in AssessInputs :
          (/\ Analyze(ev)
           /\ ev.event_type = "failed_login_attempt"
           /\ ev.source_ip \notin whitelisted_ips) =>
              LET window == SelectSeq(ip_history'[ev.source_ip],
                                      LAMBDA e : /\ e.timestamp >= now - 24 * 3600
                                                 /\ e.timestamp <= now)
                  n      == Len(window)
                  failed == FailedCount(window)
                  scaled == IF n > 1 THEN 10 * Min(n * 2, 20) ELSE 100
                  score  == assessment'[1].threat_score
              IN  /\ failed >= FAILED_LOGIN_THRESHOLD =>
                         score = Min((scaled + 300) \div 10, 100)
                  /\ failed < FAILED_LOGIN_THRESHOLD =>
                         score = Min(scaled \div 10, 100)
                  /\ (n = 6 /\ failed = 6) => score = 42]_vars

\* the actions an assessment selects, as _execute_actions reads them off
\* should_scan, should_block and the words of recommended_action
ActionSet(a) ==
    (IF a.should_scan /\ Contains("quick", a.recommended_action)
     THEN {"scan_quick"} ELSE {})
    \cup (IF a.should_scan /\ Contains("vulnerability", a.recommended_action)
          THEN {"scan_deep"} ELSE {})
    \cup (IF a.should_block THEN {"block_source"} ELSE {})
    \cup (IF a.recommended_action = LOG_ONLY THEN {"log_only"} ELSE {})

\* C28: for a source off the whitelist the selected actions are a function
\* of the final score and the event type: at or above the action threshold
\* the confirmed-attack types select block and deep scan, the port scan type
\* selects deep scan and every other type quick scan; from 40 up to the
\* threshold the selection is quick scan; below 40 it is log-only, with no
\* scan and no block.
C28_ActionSelection ==
    LET ev == event[1]
        a  == assessment[1]
    IN  (ev # NoEvent /\ ev.source_ip \notin whitelisted_ips) =>
            ActionSet(a) =
                IF a.threat_score >= THREAT_SCORE_THRESHOLD
                THEN IF ev.event_type \in {"confirmed_brute_force",
                                           "confirmed_attack"}
                     THEN {"block_source", "scan_deep"}
                     ELSE IF ev.event_type = "suspicious_port_scan"
                     THEN {"scan_deep"}
                     ELSE {"scan_quick"}
                ELSE IF a.threat_score >= 40
                THEN {"scan_quick"}
                ELSE {"log_only"}

\* C29: every assessment has an integer score in 0..100.
C29_ScoreInRange ==
    /\ \A t \in Tasks : assessment[t].threat_score \in 0..100
    /\ returned.assessment.threat_score \in 0..100

\* a malware event, the seventh record of its source inside the window:
\* 100 * 1.4 capped at 100
C29_Witness ==
    /\ event[1].event_type = "malware_detected"
    /\ Len(GetRecentEvents(DictGet(ip_history, event[1].source_ip), 24, now)) = 7
    /\ assessment[1].threat_score = 100

\* C30: in every assessment the tier is critical when score >= 80, high
\* when 60 <= score < 80, medium when 30 <= score < 60 and low otherwise.
C30_TierOfScore ==
    \A t \in Tasks :
        LET score == assessment[t].threat_score
            tier  == assessment[t].threat_level
        IN  /\ score >= 80 => tier = "critical"
            /\ (60 <= score /\ score < 80) => tier = "high"
            /\ (30 <= score /\ score < 60) => tier = "medium"
            /\ score < 30 => tier = "low"

\* an unusual_network_activity event scored 50 * 1.2 = 60: the lowest score
\* of the high tier
C30_Witness ==
    /\ event[1].event_type = "unusual_network_activity"
    /\ assessment[1].threat_score = 60
    /\ assessment[1].threat_level = "high"

\* C31: every decision step applied while assessing an event appends one
\* reason to reasoning, in the order of the steps: the base-score lookup,
\* then for a whitelisted source the short-circuit, and otherwise the
\* frequency multiplier and the pattern bonus where they apply, the clamp,
\* the tier mapping and the action selection.
C31_ReasonPerStep ==
    [][\A ev \in AssessInputs :
          Analyze(ev) =>
              LET recent == GetRecentEvents(ip_history'[ev.source_ip], 24, now)
              IN  assessment'[1].reasoning =
                      IF ev.source_ip \in whitelisted_ips
                      THEN <<"base_score", "whitelisted">>
                      ELSE <<"base_score">>
                           \o (IF Len(recent) > 1 THEN <<"frequency">> ELSE <<>>)
                           \o (IF PatternBonus(ev.event_type, recent) > 0
                               THEN <<"failed_logins">> ELSE <<>>)
                           \o <<"clamp", "tier", "action">>]_vars

\* C32: assessing an event has no side effects and is deterministic: it
\* changes neither the history (no entry is made for a source never seen),
\* nor the cooldowns, nor the blocked set, and assessing again the event
\* just recorded or just assessed, against the same history and at the same
\* reading of the clock, returns the same score, tier, action and reasoning.
C32_AssessHasNoSideEffects ==
    [][\A ev \in ReassessInputs :
          AssessOnly(ev) =>
              /\ ip_history' = ip_history
              /\ scan_cooldowns' = scan_cooldowns
              /\ block_cooldowns' = block_cooldowns
              /\ blocked_ips' = blocked_ips
              /\ (/\ event[1] = ev
                  /\ ev.source_ip \in DOMAIN ip_history
                  /\ LET h == ip_history[ev.source_ip]
                     IN  /\ h[Len(h)].timestamp = now
                         /\ h[Len(h)].event_type = ev.event_type) =>
                      assessment'[1] = assessment[1]]_vars

\* an event of a source with no history was assessed on its own
C32_Witness ==
    /\ event[1].event_type = "malware_detected"
    /\ event[1].source_ip \notin DOMAIN ip_history
    /\ assessment[1].threat_score = 100
    /\ now = 86400

\* C33: the reputation query is read-only: for a source seen or never seen
\* it leaves the history, the cooldown entries and the blocked set as they
\* were, and its counters satisfy recent-window events <= total events =
\* the number of events recorded for the source.
C33_ReputationReadOnly ==
    [][\A ip \in Sources :
          GetIpReputation(ip) =>
              /\ ip_history' = ip_history
              /\ scan_cooldowns' = scan_cooldowns
              /\ block_cooldowns' = block_cooldowns
              /\ blocked_ips' = blocked_ips
              /\ reputation'.recent_events_24h <= reputation'.total_events
              /\ reputation'.total_events =
                     IF ip \in DOMAIN ip_history THEN Len(ip_history[ip]) ELSE 0
              /\ reputation'.recent_events_24h = Len(reputation'.recent)]_vars

\* a source never seen was asked about, after another source's event
C33_Witness ==
    /\ reputation.ip = "127.0.0.1"
    /\ reputation.total_events = 0
    /\ "127.0.0.1" \notin DOMAIN ip_history
    /\ nEvents = 1

----------------------------------------------------------------------------
(* Properties of the dispatcher and the request handler *)

\* C34: the cooldown entry of (source, class) is written on every attempted
\* fire, the failed ones included: when a dispatch returns with the failure
\* of an invocation that was sent and raised, the source has an entry of
\* that class.
C34_AttemptMarksCooldown ==
    \A i \in DOMAIN returned.actions :
        LET o  == returned.actions[i]
            ip == returned.event.source_ip
        IN  (~o.success /\ o.error \in ClientErrors) =>
                /\ IsScanCall(o.action_taken) => ip \in DOMAIN scan_cooldowns
                /\ o.action_taken = "block_ip_firewall" =>
                       ip \in DOMAIN block_cooldowns

\* the tool a dispatch awaits at a position
AwaitedTool(position) ==
    CASE position = "await_quick" -> "nmap_quick_scan"
      [] position = "await_vuln" -> "nmap_vulnerability_scan"
      [] position = "await_block" -> "block_ip_firewall"

\* C35: with dispatches running one at a time, a remote invocation that
\* returns records a success outcome carrying the raw payload and marks the
\* cooldown of (source, class) with the time of the return; no dispatch for
\* that source fires that class again up to and including mark time +
\* cooldown(class), and one strictly after that time may.
C35_SuccessMarksAndHolds ==
    [][/\ \A result \in Payloads :
             ToolReturn(1, result) =>
                 LET tool == AwaitedTool(pc[1])
                     ip   == event[1].source_ip
                     out  == StepOutcomes(1)[1]
                 IN  /\ out = Success(tool, result)
                     /\ IsScanCall(tool) =>
                            /\ ip \in DOMAIN scan_cooldowns'
                            /\ scan_cooldowns'[ip] = now
                     /\ tool = "block_ip_firewall" =>
                            /\ ip \in DOMAIN block_cooldowns'
                            /\ block_cooldowns'[ip] = now
       /\ LET ip == StepSource
          IN  /\ (/\ ip \in DOMAIN scan_cooldowns
                  /\ now <= scan_cooldowns[ip] + SCAN_COOLDOWN_SECONDS) =>
                     /\ ~Fires(1, "nmap_quick_scan")
                     /\ ~Fires(1, "nmap_vulnerability_scan")
              /\ (/\ ip \in DOMAIN block_cooldowns
                  /\ now <= block_cooldowns[ip] + BLOCK_IP_COOLDOWN_SECONDS) =>
                     ~Fires(1, "block_ip_firewall")]_vars

\* a block of a source returned at 0; a dispatch strictly after the block
\* cooldown sends the next block of that source
C35_Witness ==
    /\ ~DRY_RUN_MODE
    /\ now = 3601
    /\ "203.0.113.5" \in DOMAIN block_cooldowns
    /\ block_cooldowns["203.0.113.5"] = 0
    /\ "203.0.113.5" \in blocked_ips
    /\ pc[1] = "await_block"
    /\ event[1].source_ip = "203.0.113.5"

\* C36: the threat score in the response to an event is the score of the
\* assessment that decided the actions listed in that response, whatever
\* other requests did while the actions of this one were in flight.
C36_ResponseScoreIsDecidingScore ==
    returned.event # NoEvent =>
        returned.threat_score = returned.assessment.threat_score

\* C37: the reputation query reports a source as blocked only if a block
\* of that source was sent to the MCP client and returned without error; in
\* particular, in dry-run mode, where nothing is sent, it reports no source
\* as blocked.
C37_BlockedOnlyAfterRealBlock ==
    DRY_RUN_MODE =>
        \A ip \in Sources :
            ~IpReputation(ip, ip_history, blocked_ips, now).is_blocked

\* the assessment a request makes in the step that receives its event
StepAssessment(t) ==
    IF pc'[t] = "idle" THEN returned'.assessment ELSE assessment'[t]

\* C38: recording an event and assessing it are one atomic step under
\* concurrent arrivals: the step appends the record of the event to the
\* history of its source, and the count its multiplier uses is this event
\* (count >= 1) plus exactly the records of the same source inside the
\* window that were there before the step, whatever other requests are in
\* flight.
C38_RecordAndAssessAtomic ==
    [][\A t \in Tasks, ev \in EventInputs :
          Receive(t, ev) =>
              LET ip     == ev.source_ip
                  before == SelectSeq(DictGet(ip_history, ip),
                                      LAMBDA e : InWindow(e, 24, now))
                  n      == 1 + Len(before)
                  base   == base_scores(ev.event_type)
                  a      == StepAssessment(t)
              IN  /\ ip_history'[ip] =
                         Append(DictGet(ip_history, ip),
                                [event_type |-> ev.event_type,
                                 timestamp |-> now])
                  /\ ip \in whitelisted_ips => a.threat_score = 0
                  /\ ip \notin whitelisted_ips =>
                         /\ a.threat_score =
                                Min((IF n > 1 THEN base * Min(n * 2, 20)
                                              ELSE base * 10) \div 10, 100)
                         /\ Contains("frequency", a.reasoning) <=> n > 1]_vars

\* two requests for one source are in flight: the second was assessed on
\* both records while the first awaited its tool
C38_Witness ==
    /\ Awaiting(1)
    /\ Awaiting(2)
    /\ event[1].source_ip = event[2].source_ip
    /\ Len(ip_history[event[1].source_ip]) = 2
    /\ ~Contains("frequency", assessment[1].reasoning)
    /\ Contains("frequency", assessment[2].reasoning)

----------------------------------------------------------------------------
(* Properties of the MCP client's disconnect and refresh *)

\* C39: whenever disconnect() returns, the client is not connected and its
\* cached tool list is empty, also when closing the session raised; and
\* reconnect() returns True only after establishing a new session.
C39_DisconnectAlwaysDisconnects ==
    /\ creturned.op = "disconnect" =>
          /\ ~creturned.connected
          /\ creturned.available_tools = {}
    /\ (creturned.op = "reconnect" /\ creturned.result = "True") =>
          creturned.handshake_ok

\* C40: a refresh of the tool list that fails leaves the cached tool list
\* as it was, so the tools known before it can be invoked afterwards
\* without another refresh.
C40_FailedRefreshKeepsCache ==
    [][\A c \in Callers :
          (ListToolsRaises(c) /\ caller[c].pc = "refresh") =>
              available_tools' = available_tools]_vars

====
